---------------------------- MODULE Spec2Model ----------------------------
(***************************************************************************)
(* Fleet Telemetry API (src/api/main.py): the risk evaluator compute_risk  *)
(* and the two endpoints create_telemetry and get_latest_telemetry over    *)
(* the asset_telemetry table.                                              *)
(*                                                                         *)
(* Numbers.  Python floats are IEEE-754 binary64 values.  A finite         *)
(* non-negative float is the record [m |-> M, e |-> E] standing for        *)
(* M * 2^E, where M is a natural number of exactly MantBits bits, or of    *)
(* fewer bits with E = MinExp (a subnormal), or zero with E = 0.  Naturals *)
(* wider than TLC's integers are little-endian sequences of limbs in base  *)
(* 2^15 without leading zero limbs, so that two equal numbers are equal    *)
(* values.  The result of round(x, 2) is a float that is the nearest       *)
(* binary64 to a decimal with two places; it is represented by that        *)
(* decimal counted in hundredths (0.17 is 17).                             *)
(* The sum of a window is the one of the interpreter that runs the service: *)
(* a left fold, or a sum with a compensation term, which may be negative   *)
(* and is a float with a sign.                                             *)
(* Measurements are finite, non-negative and far from overflow.            *)
(*                                                                         *)
(* Store.  The table asset_telemetry is the set of its committed rows; its *)
(* measurement columns hold the floats as written, its id comes from a     *)
(* sequence and its recorded_at from the store's clock, which may stand    *)
(* still or run backwards between two inserts.  A statement of a handler   *)
(* that talks to the store may raise.                                      *)
(***************************************************************************)
EXTENDS Integers, Sequences, FiniteSets, TLC

-----------------------------------------------------------------------------
(* Natural numbers as limb sequences *)

LimbBits == 15
Base == 2 ^ LimbBits

RECURSIVE Norm(_)
Norm(x) ==
  IF x = <<>> THEN x
  ELSE IF x[Len(x)] = 0 THEN Norm(SubSeq(x, 1, Len(x) - 1)) ELSE x

RECURSIVE Zeros(_)
Zeros(n) == IF n <= 0 THEN <<>> ELSE <<0>> \o Zeros(n - 1)

RECURSIVE AddC(_, _, _)
AddC(x, y, c) ==
  IF x = <<>> /\ y = <<>> THEN (IF c = 0 THEN <<>> ELSE <<c>>)
  ELSE LET a == IF x = <<>> THEN 0 ELSE Head(x)
           b == IF y = <<>> THEN 0 ELSE Head(y)
           s == a + b + c
       IN <<s % Base>> \o AddC(IF x = <<>> THEN x ELSE Tail(x),
                               IF y = <<>> THEN y ELSE Tail(y),
                               s \div Base)

AddBig(x, y) == Norm(AddC(x, y, 0))

RECURSIVE SubB(_, _, _)
SubB(x, y, b) ==
  IF x = <<>> THEN <<>>
  ELSE LET d == Head(x) - (IF y = <<>> THEN 0 ELSE Head(y)) - b
       IN <<(d + Base) % Base>> \o SubB(Tail(x),
                                        IF y = <<>> THEN y ELSE Tail(y),
                                        IF d < 0 THEN 1 ELSE 0)

\* x - y for x >= y
SubBig(x, y) == Norm(SubB(x, y, 0))

RECURSIVE MulC(_, _, _)
MulC(x, k, c) ==
  IF x = <<>> THEN (IF c = 0 THEN <<>> ELSE <<c>>)
  ELSE LET p == Head(x) * k + c
       IN <<p % Base>> \o MulC(Tail(x), k, p \div Base)

\* x * k for 0 <= k < Base
MulSmall(x, k) == Norm(MulC(x, k, 0))

\* quotient and remainder of x by k, 0 < k < Base
RECURSIVE DivMod(_, _)
DivMod(x, k) ==
  IF x = <<>> THEN [q |-> <<>>, r |-> 0]
  ELSE LET hi  == DivMod(Tail(x), k)
           cur == hi.r * Base + Head(x)
       IN [q |-> <<cur \div k>> \o hi.q, r |-> cur % k]

DivSmall(x, k) == Norm(DivMod(x, k).q)

\* x * 2^k and floor(x / 2^k)
Shl(x, k) ==
  IF x = <<>> THEN <<>>
  ELSE Zeros(k \div LimbBits) \o MulSmall(x, 2 ^ (k % LimbBits))

Shr(x, k) ==
  LET d == k \div LimbBits
  IN IF d >= Len(x) THEN <<>>
     ELSE DivSmall(SubSeq(x, d + 1, Len(x)), 2 ^ (k % LimbBits))

RECURSIVE BitLenSmall(_)
BitLenSmall(n) == IF n = 0 THEN 0 ELSE 1 + BitLenSmall(n \div 2)

BitLen(x) ==
  IF x = <<>> THEN 0
  ELSE LimbBits * (Len(x) - 1) + BitLenSmall(x[Len(x)])

IsOdd(x) == x # <<>> /\ x[1] % 2 = 1

RECURSIVE LessFrom(_, _, _)
LessFrom(x, y, i) ==
  IF i = 0 THEN FALSE
  ELSE IF x[i] # y[i] THEN x[i] < y[i]
  ELSE LessFrom(x, y, i - 1)

LessBig(x, y) ==
  IF Len(x) # Len(y) THEN Len(x) < Len(y) ELSE LessFrom(x, y, Len(x))

RECURSIVE ToInt(_)
ToInt(x) == IF x = <<>> THEN 0 ELSE Head(x) + Base * ToInt(Tail(x))

\* the integer nearest to x / 2^k (k >= 1), ties to the even integer;
\* sticky says that the exact value lies strictly above x
RoundShift(x, k, sticky) ==
  LET t    == Shr(x, k - 1)
      half == IsOdd(t)
      q    == Shr(t, 1)
      st   == sticky \/ Shl(t, k - 1) # x
      up   == half /\ (st \/ IsOdd(q))
  IN IF up THEN AddBig(q, <<1>>) ELSE q

-----------------------------------------------------------------------------
(* binary64 arithmetic, round-to-nearest-even *)

MantBits == 53

FZero == [m |-> <<>>, e |-> 0]

\* the least exponent of a binary64: below 2^(MinExp + MantBits - 1) the
\* floats are the multiples of 2^MinExp (gradual underflow)
MinExp == 0 - 1074

\* the float nearest to M * 2^E (plus a positive fraction below one unit of
\* M when sticky, which the callers pair with an M wide enough to be shifted
\* right); an exact tie goes to the even mantissa
RoundToDouble(M, E, sticky) ==
  LET L  == BitLen(M)
      te == IF E + L - MantBits < MinExp THEN MinExp ELSE E + L - MantBits
  IN IF L = 0 THEN FZero
     ELSE IF te <= E THEN [m |-> Shl(M, E - te), e |-> te]
     ELSE LET q == RoundShift(M, te - E, sticky)
          IN IF q = <<>> THEN FZero
             ELSE IF BitLen(q) > MantBits
               THEN [m |-> Shr(q, 1), e |-> te + 1]
               ELSE [m |-> q, e |-> te]

\* extra low bits carried through a division so that its quotient has more
\* than MantBits bits: two limbs for a float over an int below Base, six for
\* a decimal literal over a power of ten
DivGuardBits == 2 * LimbBits
DecGuardBits == 6 * LimbBits

\* the float k / 2^s for a small natural k (an int or a literal such as 3.5)
Dyadic(k, s) == RoundToDouble(Norm(<<k>>), 0 - s, FALSE)
FromInt(n) == Dyadic(n, 0)

RECURSIVE ToBig(_)
ToBig(n) == IF n = 0 THEN <<>> ELSE <<n % Base>> \o ToBig(n \div Base)

\* the float denoted by the decimal literal n / 10^d (d <= 4), as a JSON
\* number of a request body is read
Dec(n, d) ==
  LET W  == Shl(ToBig(n), DecGuardBits)
      qr == DivMod(W, 10 ^ d)
  IN RoundToDouble(Norm(qr.q), 0 - DecGuardBits, qr.r # 0)

\* x + y; an operand more than MantBits binary places below the other one
\* is less than half a unit of its last place and is rounded away
FAdd(x, y) ==
  IF x.m = <<>> THEN y
  ELSE IF y.m = <<>> THEN x
  ELSE LET hi == IF x.e < y.e THEN y ELSE x
           lo == IF x.e < y.e THEN x ELSE y
           d  == hi.e - lo.e
       IN IF d > MantBits THEN hi
          ELSE RoundToDouble(AddBig(Shl(hi.m, d), lo.m), lo.e, FALSE)

\* x / n for an int 0 < n < Base
FDivInt(x, n) ==
  LET qr == DivMod(Shl(x.m, DivGuardBits), n)
  IN RoundToDouble(Norm(qr.q), x.e - DivGuardBits, qr.r # 0)

\* x > y
FGreater(x, y) ==
  IF x.m = <<>> THEN FALSE
  ELSE IF y.m = <<>> THEN TRUE
  ELSE IF x.e # y.e THEN x.e > y.e
  ELSE LessBig(y.m, x.m)

FLess(x, y) == FGreater(y, x)

\* x - y for x >= y; a y more than MantBits + LimbBits binary places below x
\* only says that the exact difference lies just below x
FDiff(x, y) ==
  IF y.m = <<>> THEN x
  ELSE RoundToDouble(
         IF x.e - y.e >= MantBits + LimbBits
           THEN SubBig(Shl(x.m, LimbBits), <<1>>)
           ELSE SubBig(Shl(x.m, x.e - y.e), y.m),
         IF x.e - y.e >= MantBits + LimbBits THEN x.e - LimbBits ELSE y.e,
         x.e - y.e >= MantBits + LimbBits)

\* a float of either sign: its magnitude a, and whether it is below zero
Signed(neg, a) == [neg |-> neg /\ a.m # <<>>, a |-> a]
Plus(a) == Signed(FALSE, a)
Minus(a) == Signed(TRUE, a)

\* u + v for floats of either sign: the magnitudes are added when the signs
\* agree, else the smaller is taken from the larger, whose sign the result has
SAdd(u, v) ==
  IF u.neg = v.neg THEN Signed(u.neg, FAdd(u.a, v.a))
  ELSE Signed(IF FLess(u.a, v.a) THEN v.neg ELSE u.neg,
              FDiff(IF FLess(u.a, v.a) THEN v.a ELSE u.a,
                    IF FLess(u.a, v.a) THEN u.a ELSE v.a))

\* round(x, 2), in hundredths
Round2(x) ==
  LET N == MulSmall(x.m, 100)
  IN IF x.e >= 0 THEN ToInt(Shl(N, x.e))
     ELSE ToInt(RoundShift(N, 0 - x.e, FALSE))

-----------------------------------------------------------------------------
(* Risk scoring: compute_risk *)

None == [None |-> TRUE]

\* sum(r[f] for r in readings) depends on the interpreter that runs the
\* service, which the repository does not fix.  Up to CPython 3.11 it is a
\* left fold of float additions from 0, each rounded to nearest.
RECURSIVE SumFrom(_, _, _)
SumFrom(acc, rs, f) ==
  IF rs = <<>> THEN acc ELSE SumFrom(FAdd(acc, Head(rs)[f]), Tail(rs), f)

\* From CPython 3.12 on it carries a compensation term c beside the running
\* sum (Neumaier): for each item x, t = sum + x, c += (sum - t) + x when
\* sum >= x and (x - t) + sum otherwise, sum = t; at the end a c that is
\* not zero is added to the sum.
\* what adding an item loses: (big - t) + small, where t is the rounded sum
\* of the two and big the one that is not the smaller
Lost(big, small, t) == SAdd(SAdd(Plus(big), Minus(t)), Plus(small))

RECURSIVE CompensatedFrom(_, _, _, _)
CompensatedFrom(acc, c, rs, f) ==
  IF rs = <<>>
    THEN (IF c.a.m = <<>> THEN acc ELSE SAdd(Plus(acc), c).a)
    ELSE LET x == Head(rs)[f]
             t == FAdd(acc, x)
         IN CompensatedFrom(
              t,
              SAdd(c, Lost(IF FLess(acc, x) THEN x ELSE acc,
                           IF FLess(acc, x) THEN acc ELSE x, t)),
              Tail(rs), f)

Interpreters == {"fold", "compensated"}

\* which of the two the interpreter running the service has
VARIABLE interp

SumBy(py, rs, f) ==
  IF py = "fold" THEN SumFrom(FZero, rs, f)
  ELSE CompensatedFrom(FZero, Plus(FZero), rs, f)

PySum(rs, f) == SumBy(interp, rs, f)

Average(rs, f) == FDivInt(PySum(rs, f), Len(rs))

max_points == 6

\* TempPoints with inclusive comparisons (>= for >)
TempPointsInclusive(avg_temp) ==
  IF ~FLess(avg_temp, FromInt(95)) THEN 2
  ELSE IF ~FLess(avg_temp, FromInt(85)) THEN 1
  ELSE 0

\* TempPoints comparing the average as reported, rounded to two places
TempPointsOfRounded(avg_temp) ==
  IF Round2(avg_temp) > 9500 THEN 2
  ELSE IF Round2(avg_temp) > 8500 THEN 1
  ELSE 0

TempPoints(avg_temp) ==
  IF FGreater(avg_temp, FromInt(95)) THEN 2
  ELSE IF FGreater(avg_temp, FromInt(85)) THEN 1
  ELSE 0

VibPoints(avg_vib) ==
  IF FGreater(avg_vib, Dyadic(7, 1)) THEN 2
  ELSE IF FGreater(avg_vib, Dyadic(5, 1)) THEN 1
  ELSE 0

PressurePoints(avg_pressure) ==
  IF FLess(avg_pressure, FromInt(30)) \/ FGreater(avg_pressure, FromInt(60)) THEN 2
  ELSE IF FLess(avg_pressure, FromInt(35)) \/ FGreater(avg_pressure, FromInt(55)) THEN 1
  ELSE 0

\* RiskScore cutting the quotient off after two places instead of rounding it
RiskScoreTruncated(risk_points) == (100 * risk_points) \div max_points

RiskScore(risk_points) == Round2(FDivInt(FromInt(risk_points), max_points))

\* RiskLevel with the first boundary off by one (< 2 for <= 2)
RiskLevelOffByOne(risk_points) ==
  IF risk_points < 2 THEN "LOW"
  ELSE IF risk_points <= 4 THEN "MEDIUM"
  ELSE "HIGH"

RiskLevel(risk_points) ==
  IF risk_points <= 2 THEN "LOW"
  ELSE IF risk_points <= 4 THEN "MEDIUM"
  ELSE "HIGH"

Assessment(rs) ==
  LET avg_temp     == Average(rs, "temperature_c")
      avg_vib      == Average(rs, "vibration_rms")
      avg_pressure == Average(rs, "pressure_psi")
      risk_points  == TempPoints(avg_temp) + VibPoints(avg_vib)
                        + PressurePoints(avg_pressure)
  IN [risk_score  |-> RiskScore(risk_points),
      risk_points |-> risk_points,
      risk_level  |-> RiskLevel(risk_points),
      window_used |-> Len(rs),
      averages    |-> [temperature_c |-> Round2(avg_temp),
                       vibration_rms |-> Round2(avg_vib),
                       pressure_psi  |-> Round2(avg_pressure)]]

\* compute_risk giving an empty list a LOW assessment instead of None
compute_risk_EmptyIsLow(rs) ==
  IF rs = <<>>
    THEN [risk_score  |-> 0,
          risk_points |-> 0,
          risk_level  |-> "LOW",
          window_used |-> 0,
          averages    |-> [temperature_c |-> 0, vibration_rms |-> 0,
                           pressure_psi |-> 0]]
    ELSE Assessment(rs)

compute_risk(rs) == IF rs = <<>> THEN None ELSE Assessment(rs)

-----------------------------------------------------------------------------
(* State *)

VARIABLES
  table,      \* the committed rows of asset_telemetry
  seq,        \* the next value of the id sequence of asset_telemetry
  req,        \* per worker thread: the request it serves and how far it got
  last,       \* the response sent by the latest step with its request, or None
  acked,      \* SpecCounted: per asset, the POST /telemetry calls answered 201
  readings,   \* SpecRisk: the argument of a compute_risk call
  result,     \* SpecRisk: what the call returned
  called      \* SpecRisk: whether the call was made

vars == <<interp, table, seq, req, last, acked, readings, result, called>>

apiVars  == <<table, seq, req, last, acked>>
riskVars == <<interp, readings, result, called>>

-----------------------------------------------------------------------------
(* Bounds and inputs *)

MaxWindow == 3      \* longest argument of compute_risk in SpecRisk
MaxRows == 2        \* ids the sequence hands out in Spec
MaxTime == 1        \* recorded_at ranges over 0..MaxTime microseconds

Workers == {"w1", "w2"}
Assets == {"aircraft-C130-017", "aircraft-C130-018"}
Times == 0 .. MaxTime

Metrics(t, v, p) == [temperature_c |-> t, vibration_rms |-> v, pressure_psi |-> p]

\* measurements compute_risk is applied to in SpecRisk
ReadingValues ==
  { Metrics(FromInt(90), FromInt(1), FromInt(45)),
    Metrics(FromInt(100), FromInt(4), FromInt(65)),
    Metrics(Dec(1073, 1), Dec(432, 2), Dec(499, 1)),
    Metrics(Dec(1384, 1), Dec(478, 2), Dec(601, 1)),
    Metrics(Dec(1269, 1), Dec(140, 2), Dec(294, 1)),
    Metrics(FromInt(95), Dyadic(7, 1), FromInt(30)),
    Metrics(FromInt(85), Dyadic(5, 1), FromInt(35)),
    Metrics(Dyadic(24321, 8), Dyadic(641, 8), Dyadic(8959, 8)),
    Metrics(Dyadic(24319, 8), Dyadic(897, 8), Dyadic(15361, 8)),
    Metrics(Dyadic(1, 1074), FZero, Dyadic(1, 1074)),
    Metrics(FZero, Dyadic(3, 1074), FZero) }

\* request bodies of POST /telemetry in Spec
Payloads ==
  {[asset_id |-> a] @@ Metrics(FromInt(100), FromInt(4), FromInt(65)) : a \in Assets}

limit_ge == 1
limit_default == 5
Limits == {limit_ge, limit_default}

RECURSIVE SeqsUpTo(_, _)
SeqsUpTo(S, n) ==
  IF n = 0 THEN {<<>>}
  ELSE LET shorter == SeqsUpTo(S, n - 1)
       IN shorter \cup {Append(s, x) : s \in {t \in shorter : Len(t) = n - 1}, x \in S}

-----------------------------------------------------------------------------
(* The asset_telemetry table and the two statements run against it *)

\* datetime.isoformat() of a timestamp t microseconds into the model's
\* second: the fraction is left out when it is zero
RECURSIVE PadLeft(_, _)
PadLeft(str, n) == IF n <= 0 THEN str ELSE PadLeft("0" \o str, n - 1)

Digits(n) == IF n < 10 THEN 1 ELSE IF n < 100 THEN 2 ELSE IF n < 1000 THEN 3
             ELSE IF n < 10000 THEN 4 ELSE IF n < 100000 THEN 5 ELSE 6

IsoFormat(t) ==
  IF t = 0 THEN "2026-01-01T00:00:00+00:00"
  ELSE "2026-01-01T00:00:00." \o PadLeft(ToString(t), 6 - Digits(t)) \o "+00:00"

\* INSERT ... RETURNING id, recorded_at: the row the statement makes
InsertedRow(payload, id, now) ==
  [id            |-> id,
   asset_id      |-> payload.asset_id,
   temperature_c |-> payload.temperature_c,
   vibration_rms |-> payload.vibration_rms,
   pressure_psi  |-> payload.pressure_psi,
   recorded_at   |-> now]

\* WHERE asset_id = %s
WhereAsset(tbl, asset_id) == {r \in tbl : r.asset_id = asset_id}

\* ORDER BY id DESC in place of ORDER BY recorded_at DESC
OrderByIdDesc(rows) ==
  LET n == Cardinality(rows)
  IN {s \in [1 .. n -> rows] : \A i, j \in 1 .. n : i < j => s[i].id > s[j].id}

\* ORDER BY recorded_at DESC: every order of the rows the clause allows
\* (rows of equal recorded_at come in any order)
OrderByRecordedAtDesc(rows) ==
  LET n == Cardinality(rows)
  IN {s \in [1 .. n -> rows] :
        /\ \A i, j \in 1 .. n : i # j => s[i] # s[j]
        /\ \A i, j \in 1 .. n : i < j => s[i].recorded_at >= s[j].recorded_at}

\* the statement without its LIMIT clause
LimitDropped(s, limit) == s

\* LIMIT %s
Limit(s, limit) == IF Len(s) <= limit THEN s ELSE SubSeq(s, 1, limit)

SelectLatest(tbl, asset_id, limit) ==
  {Limit(s, limit) : s \in OrderByRecordedAtDesc(WhereAsset(tbl, asset_id))}

\* the readings list built from the fetched rows
RECURSIVE ToReadings(_)
ToReadings(rows) ==
  IF Len(rows) = 0 THEN <<>>
  ELSE LET r == rows[1]
       IN <<[id            |-> r.id,
             asset_id      |-> r.asset_id,
             temperature_c |-> r.temperature_c,
             vibration_rms |-> r.vibration_rms,
             pressure_psi  |-> r.pressure_psi,
             recorded_at   |-> IsoFormat(r.recorded_at)]>>
          \o ToReadings(SubSeq(rows, 2, Len(rows)))

LatestBody(asset_id, limit, rds) ==
  [asset_id         |-> asset_id,
   window_requested |-> limit,
   window_used      |-> Len(rds),
   count            |-> Len(rds),
   readings         |-> rds,
   risk             |-> compute_risk(rds)]

-----------------------------------------------------------------------------
(* POST /telemetry: create_telemetry *)

Idle == [pc |-> "idle"]

Free(w) == req[w].pc = "idle"

AnyFree == {w \in Workers : Free(w)} # {}

\* the request arrives at a free worker; get_conn, cursor, execute INSERT ...
\* RETURNING, fetchone: the row exists in the open transaction only
PostInsert(w, payload) ==
  /\ Free(w)
  /\ seq <= MaxRows
  /\ \E now \in Times :
       req' = [req EXCEPT ![w] = [pc |-> "commit", payload |-> payload,
                                  row |-> InsertedRow(payload, seq, now)]]
  /\ seq' = seq + 1
  /\ last' = None
  /\ UNCHANGED <<table, acked, riskVars>>

\* get_conn, cursor or execute raises: the handler answers 500, no row is made
PostInsertRaise ==
  /\ AnyFree
  /\ last' = [kind |-> "post", row |-> None,
              status |-> 500, detail |-> "db_insert_failed"]
  /\ UNCHANGED <<table, seq, req, acked, riskVars>>

\* conn.commit()
PostCommit(w) ==
  /\ req[w].pc = "commit"
  /\ table' = table \cup {req[w].row}
  /\ req' = [req EXCEPT ![w].pc = "return"]
  /\ last' = None
  /\ UNCHANGED <<seq, acked, riskVars>>

\* cur.close(), conn.close(), return {"id": ..., "recorded_at": ...}
Respond201(w) ==
  /\ req[w].pc = "return"
  /\ last' = [kind |-> "post", payload |-> req[w].payload, row |-> req[w].row,
              status |-> 201,
              body |-> [id |-> req[w].row.id,
                        recorded_at |-> IsoFormat(req[w].row.recorded_at)]]
  /\ req' = [req EXCEPT ![w] = Idle]
  /\ UNCHANGED <<table, seq, riskVars>>

PostReturn(w) == Respond201(w) /\ UNCHANGED acked

\* PostReturn with the history variable acked counting the 201 answers
PostReturnCounted(w) ==
  /\ Respond201(w)
  /\ acked' = [acked EXCEPT ![req[w].payload.asset_id] = @ + 1]

\* commit, close or the building of the response raises: the handler answers
\* 500; a transaction that was not committed is rolled back with its connection
PostRaise(w) ==
  /\ req[w].pc \in {"commit", "return"}
  /\ last' = [kind |-> "post", row |-> req[w].row,
              status |-> 500, detail |-> "db_insert_failed"]
  /\ req' = [req EXCEPT ![w] = Idle]
  /\ UNCHANGED <<table, seq, acked, riskVars>>

-----------------------------------------------------------------------------
(* GET /telemetry/latest: get_latest_telemetry *)

\* the request arrives at a free worker; get_conn, cursor, execute SELECT,
\* fetchall: the worker holds the rows the table has at this moment
GetSelect(w, asset_id, limit) ==
  /\ Free(w)
  /\ \E rows \in SelectLatest(table, asset_id, limit) :
       req' = [req EXCEPT ![w] = [pc |-> "fetched", asset_id |-> asset_id,
                                  limit |-> limit, rows |-> rows]]
  /\ last' = None
  /\ UNCHANGED <<table, seq, acked, riskVars>>

\* get_conn, cursor, execute or fetchall raises: the handler answers 500
GetSelectRaise ==
  /\ AnyFree
  /\ last' = [kind |-> "get", status |-> 500, detail |-> "db_read_failed"]
  /\ UNCHANGED <<table, seq, req, acked, riskVars>>

\* cur.close(), conn.close(), the readings list, compute_risk, return: the
\* answer is built from the rows fetched, whatever was committed since
GetReturn(w) ==
  /\ req[w].pc = "fetched"
  /\ last' = [kind |-> "get", asset_id |-> req[w].asset_id,
              limit |-> req[w].limit, rows |-> req[w].rows, status |-> 200,
              body |-> LatestBody(req[w].asset_id, req[w].limit,
                                  ToReadings(req[w].rows))]
  /\ req' = [req EXCEPT ![w] = Idle]
  /\ UNCHANGED <<table, seq, acked, riskVars>>

\* close or the building of the response raises: the handler answers 500
GetRaise(w) ==
  /\ req[w].pc = "fetched"
  /\ last' = [kind |-> "get", status |-> 500, detail |-> "db_read_failed"]
  /\ req' = [req EXCEPT ![w] = Idle]
  /\ UNCHANGED <<table, seq, acked, riskVars>>

-----------------------------------------------------------------------------

InitApi ==
  /\ table = {}
  /\ seq = 1
  /\ req = [w \in Workers |-> Idle]
  /\ last = None
  /\ acked = [a \in Assets |-> 0]

Init ==
  /\ InitApi
  /\ interp \in Interpreters
  /\ readings = <<>>
  /\ result = None
  /\ called = FALSE

Next ==
  \/ \E w \in Workers, payload \in Payloads : PostInsert(w, payload)
  \/ PostInsertRaise
  \/ \E w \in Workers : PostCommit(w)
  \/ \E w \in Workers : PostReturn(w)
  \/ \E w \in Workers : PostRaise(w)
  \/ \E w \in Workers, a \in Assets, limit \in Limits : GetSelect(w, a, limit)
  \/ GetSelectRaise
  \/ \E w \in Workers : GetReturn(w)
  \/ \E w \in Workers : GetRaise(w)

Spec == Init /\ [][Next]_vars

\* Spec with the 201 answers counted per asset
NextCounted ==
  \/ \E w \in Workers, payload \in Payloads : PostInsert(w, payload)
  \/ PostInsertRaise
  \/ \E w \in Workers : PostCommit(w)
  \/ \E w \in Workers : PostReturnCounted(w)
  \/ \E w \in Workers : PostRaise(w)
  \/ \E w \in Workers, a \in Assets, limit \in Limits : GetSelect(w, a, limit)
  \/ GetSelectRaise
  \/ \E w \in Workers : GetReturn(w)
  \/ \E w \in Workers : GetRaise(w)

SpecCounted == Init /\ [][NextCounted]_vars

-----------------------------------------------------------------------------
(* SpecRisk: compute_risk applied to a list of readings *)

InitRisk ==
  /\ interp \in Interpreters
  /\ readings \in SeqsUpTo(ReadingValues, MaxWindow)
  /\ result = None
  /\ called = FALSE
  /\ InitApi

Evaluate ==
  /\ ~called
  /\ result' = compute_risk(readings)
  /\ called' = TRUE
  /\ UNCHANGED <<interp, readings, apiVars>>

NextRisk == Evaluate

SpecRisk == InitRisk /\ [][NextRisk]_vars


-----------------------------------------------------------------------------
(* Properties of the endpoints, checked under Spec (C10: SpecCounted) *)

IsPost(r) == r # None /\ r.kind = "post"
GetOk(r) == r # None /\ r.kind = "get" /\ r.status = 200

\* the step in which worker w runs the SELECT of a GET /telemetry/latest, and
\* the later step in which it answers that request 200
GetSelected(w) == req[w].pc = "idle" /\ req'[w].pc = "fetched"
GetReturned(w) == req[w].pc = "fetched" /\ req'[w].pc = "idle" /\ GetOk(last')

StoredCount(tbl, a) == Cardinality({r \in tbl : r.asset_id = a})

MinOf(a, b) == IF a <= b THEN a ELSE b

\* C1: every create_telemetry call ends either with the reading stored and a
\* 201 carrying its id and recorded_at, or with the reading not stored and an
\* error; never stored-but-failed, never success-but-absent.
C1_StoredIffAcknowledged ==
  IsPost(last) =>
    \/ /\ last.status = 201
       /\ \E r \in table :
            /\ r = last.row
            /\ last.body.id = r.id
            /\ last.body.recorded_at = IsoFormat(r.recorded_at)
    \/ /\ last.status = 500
       /\ last.row \notin table

\* C2: a successful get_latest_telemetry(asset_id, limit), limit in [1,50],
\* for an asset with k stored readings when its SELECT runs returns exactly
\* min(k, limit) readings, all of that asset, and window_used, at the top
\* level and in the risk assessment when there is one, is that returned count.
C2_WindowIsMinOfStoredAndLimit ==
  [][\A w \in Workers :
       /\ GetSelected(w) =>
            LET rows == req'[w].rows
            IN /\ req'[w].limit \in 1 .. 50
               /\ Len(rows) =
                    MinOf(StoredCount(table, req'[w].asset_id), req'[w].limit)
               /\ \A i \in 1 .. Len(rows) : rows[i].asset_id = req'[w].asset_id
       /\ GetReturned(w) =>
            LET b == last'.body
                n == Len(b.readings)
            IN /\ last'.asset_id = req[w].asset_id
               /\ last'.limit = req[w].limit
               /\ b.window_requested = req[w].limit
               /\ n = Len(req[w].rows)
               /\ n <= MinOf(StoredCount(table', last'.asset_id), last'.limit)
               /\ \A i \in 1 .. n : b.readings[i].asset_id = last'.asset_id
               /\ b.window_used = n
               /\ b.risk # None => b.risk.window_used = n]_vars

\* a request with limit 5 for an asset with 2 stored readings was answered
\* with 2 readings and window_used 2
C2_Witness ==
  /\ GetOk(last)
  /\ last.limit = 5
  /\ StoredCount(table, last.asset_id) = 2
  /\ Len(last.body.readings) = 2
  /\ last.body.window_used = 2
  /\ last.body.risk.window_used = 2

\* an answer built from the table as it was at the SELECT: it has no reading
\* although one of the asset is stored, committed by another worker between
\* the SELECT and the answer
AnsweredBehindTable ==
  /\ GetOk(last)
  /\ last.body.readings = <<>>
  /\ last.body.risk = None
  /\ StoredCount(table, last.asset_id) = 1

\* C3: the rows fetched for an asset are most-recent-first: non-increasing in
\* recorded_at, and every reading of the asset stored when the SELECT runs
\* that is not returned has a recorded_at no later than that of every returned
\* one; the readings of the response are those rows in that order.
C3_MostRecentFirst ==
  [][\A w \in Workers :
       /\ GetSelected(w) =>
            LET rows == req'[w].rows
                n    == Len(rows)
                ids  == {rows[i].id : i \in 1 .. n}
            IN /\ \A i \in 1 .. n :
                    rows[i] \in table /\ rows[i].asset_id = req'[w].asset_id
               /\ \A i, j \in 1 .. n :
                    i < j => rows[i].recorded_at >= rows[j].recorded_at
               /\ \A r \in table :
                    (r.asset_id = req'[w].asset_id /\ r.id \notin ids) =>
                      \A i \in 1 .. n : r.recorded_at <= rows[i].recorded_at
       /\ GetReturned(w) =>
            LET rows == req[w].rows
                rds  == last'.body.readings
            IN /\ last'.rows = rows
               /\ Len(rds) = Len(rows)
               /\ \A i \in 1 .. Len(rows) :
                    /\ rds[i].id = rows[i].id
                    /\ rds[i].recorded_at = IsoFormat(rows[i].recorded_at)
               /\ \A i, j \in 1 .. Len(rows) :
                    i < j => rows[i].recorded_at >= rows[j].recorded_at]_vars

\* limit 1 returned the reading inserted first, because the one inserted after
\* it carries an earlier recorded_at
C3_Witness ==
  /\ GetOk(last)
  /\ Len(last.rows) = 1
  /\ last.rows[1] \in table
  /\ \E r \in table :
       /\ r.asset_id = last.asset_id
       /\ r.id > last.rows[1].id
       /\ r.recorded_at < last.rows[1].recorded_at

\* C4: an empty window has no assessment: for an asset with no stored readings
\* when the SELECT runs a successful get_latest_telemetry answers an empty
\* readings list, window_used 0 and a null risk, never a LOW assessment; and
\* in every answer risk is null if and only if window_used is 0.
C4_NoAssessmentIffEmptyWindow ==
  [][\A w \in Workers :
       /\ (GetSelected(w) /\ StoredCount(table, req'[w].asset_id) = 0) =>
            req'[w].rows = <<>>
       /\ GetReturned(w) =>
            LET b == last'.body
            IN /\ (b.risk = None) <=> (b.window_used = 0)
               /\ b.risk # None =>
                    b.risk.risk_level \in {"LOW", "MEDIUM", "HIGH"}
               /\ req[w].rows = <<>> =>
                    /\ b.readings = <<>>
                    /\ b.window_used = 0
                    /\ b.risk = None]_vars

\* an asset without stored readings was asked for while another asset has some
C4_Witness ==
  /\ GetOk(last)
  /\ StoredCount(table, last.asset_id) = 0
  /\ table # {}
  /\ last.body.readings = <<>>
  /\ last.body.window_used = 0
  /\ last.body.risk = None

\* a step of a GET /telemetry/latest: its SELECT, its answer, or its failure
GetStep ==
  \/ \E w \in Workers : GetSelected(w)
  \/ \E w \in Workers : req[w].pc = "fetched" /\ req'[w].pc = "idle"
  \/ (last' # None /\ last'.kind = "get")

Quiescent == \A w \in Workers : Free(w)

\* C10: the store is append-only under every interleaving: a fetch leaves the
\* stored readings unchanged; an append adds exactly one reading with a fresh
\* id and leaves the existing ones as they are; nothing is deduplicated, so
\* that, once no request is in flight, the number of stored readings of an
\* asset is the number of successful (201) appends for it.
C10_AppendOnlyAndCounted ==
  [][/\ table \subseteq table'
     /\ GetStep => table' = table
     /\ table' # table =>
          \E r \in table' :
            /\ table' = table \cup {r}
            /\ \A q \in table : q.id # r.id
     /\ Quiescent' => \A a \in Assets : StoredCount(table', a) = acked'[a]]_vars

\* the frame part of C10 alone: rows are only ever added, one at a time, with
\* a fresh id, and never by a fetch
AppendOnlyFrame ==
  [][/\ table \subseteq table'
     /\ GetStep => table' = table
     /\ table' # table =>
          \E r \in table' :
            /\ table' = table \cup {r}
            /\ \A q \in table : q.id # r.id]_vars

-----------------------------------------------------------------------------
(* Properties of compute_risk, checked under SpecRisk *)

Assessed == called /\ readings # <<>>

avgTemp     == Average(readings, "temperature_c")
avgVib      == Average(readings, "vibration_rms")
avgPressure == Average(readings, "pressure_psi")

\* a band: 2 above the outer cutpoint, else 1 above the inner one, else 0
UpperBand(x, inner, outer) ==
  CASE FGreater(x, outer) -> 2
    [] ~FGreater(x, outer) /\ FGreater(x, inner) -> 1
    [] OTHER -> 0

\* the pressure band: 2 outside [30, 60], else 1 outside [35, 55], else 0
TwoSidedBand(x) ==
  CASE FLess(x, FromInt(30)) \/ FGreater(x, FromInt(60)) -> 2
    [] ~FLess(x, FromInt(30)) /\ ~FGreater(x, FromInt(60))
         /\ (FLess(x, FromInt(35)) \/ FGreater(x, FromInt(55))) -> 1
    [] OTHER -> 0

\* C5: for a non-empty list, risk_points is the sum of three independent band
\* contributions of the window means, every comparison strict: temperature
\* >95 gives 2, else >85 gives 1; vibration >3.5 gives 2, else >2.5 gives 1;
\* pressure <30 or >60 gives 2, else <35 or >55 gives 1.  A mean of exactly
\* 95.0 gives 1 point and a mean of exactly 85.0 none.
C5_PointsAreSumOfStrictBands ==
  Assessed =>
    LET t    == avgTemp
        rest == UpperBand(avgVib, Dyadic(5, 1), Dyadic(7, 1))
                  + TwoSidedBand(avgPressure)
    IN /\ result.risk_points = UpperBand(t, FromInt(85), FromInt(95)) + rest
       /\ t = FromInt(95) => result.risk_points = 1 + rest
       /\ t = FromInt(85) => result.risk_points = rest

\* two readings whose means sit on the cutpoints 95, 2.5 and 55: one point
C5_Witness ==
  /\ Assessed
  /\ Len(readings) = 2
  /\ avgTemp = FromInt(95)
  /\ avgVib = Dyadic(5, 1)
  /\ avgPressure = FromInt(55)
  /\ result.risk_points = 1

\* C6: for a non-empty list, risk_points lies in 0..6 and risk_level is the
\* level of the partition <=2 LOW, 3..4 MEDIUM, >=5 HIGH; each of 0..6 has
\* exactly one level.
C6_LevelPartitionsPoints ==
  /\ Assessed =>
       /\ result.risk_points \in 0 .. 6
       /\ (result.risk_level = "LOW") <=> (result.risk_points <= 2)
       /\ (result.risk_level = "MEDIUM") <=> (result.risk_points \in 3 .. 4)
       /\ (result.risk_level = "HIGH") <=> (result.risk_points >= 5)
  /\ \A p \in 0 .. 6 :
       Cardinality({l \in {"LOW", "MEDIUM", "HIGH"} : RiskLevel(p) = l}) = 1

\* a window of exactly 3 points, the lowest MEDIUM
C6_Witness ==
  /\ Assessed
  /\ result.risk_points = 3
  /\ result.risk_level = "MEDIUM"

RECURSIVE IndexOrders(_)
IndexOrders(S) ==
  IF S = {} THEN {<<>>}
  ELSE UNION {{<<x>> \o p : p \in IndexOrders(S \ {x})} : x \in S}

Reordered(rs) ==
  {[i \in 1 .. Len(rs) |-> rs[p[i]]] : p \in IndexOrders(1 .. Len(rs))}

\* C7: compute_risk returns the identical assessment for every permutation of
\* a non-empty list of readings.
C7_OrderInsensitive ==
  Assessed => \A rs \in Reordered(readings) : compute_risk(rs) = result

\* the part of C7 that holds: with the compensated sum the assessment is the
\* same for every permutation of the list
OrderInsensitiveCompensated ==
  (Assessed /\ interp = "compensated") =>
    \A rs \in Reordered(readings) : compute_risk(rs) = result

\* C8: risk_score is round(risk_points / 6, 2): 0.0, 0.17, 0.33, 0.5, 0.67,
\* 0.83, 1.0 for 0..6 points; it lies in [0, 1] and increases strictly with
\* risk_points.
C8_ScoreIsRoundedSixth ==
  /\ Assessed =>
       /\ result.risk_score = <<0, 17, 33, 50, 67, 83, 100>>[result.risk_points + 1]
       /\ result.risk_score = (100 * result.risk_points + 3) \div 6
       /\ result.risk_score \in 0 .. 100
  /\ \A p \in 0 .. max_points - 1 : RiskScore(p) < RiskScore(p + 1)

\* one point scores 0.17
C8_Witness ==
  /\ Assessed
  /\ result.risk_points = 1
  /\ result.risk_score = 17

\* x > num / 2^s and x < num / 2^s for naturals num and s, decided on the
\* exact value x.m * 2^x.e (x.m of any width)
ExactlyAbove(x, num, s) ==
  LET d == x.e + s
  IN IF d >= 0 THEN LessBig(ToBig(num), Shl(x.m, d))
     ELSE LessBig(Shl(ToBig(num), 0 - d), x.m)

ExactlyBelow(x, num, s) ==
  LET d == x.e + s
  IN IF d >= 0 THEN LessBig(Shl(x.m, d), ToBig(num))
     ELSE LessBig(x.m, Shl(ToBig(num), 0 - d))

\* h hundredths is a nearest two-place decimal to x: |200 x - 2 h| <= 1
NearestHundredth(x, h) ==
  LET x200 == [m |-> MulSmall(x.m, 200), e |-> x.e]
  IN /\ ~ExactlyAbove(x200, 2 * h + 1, 0)
     /\ h > 0 => ~ExactlyBelow(x200, 2 * h - 1, 0)

UnroundedPoints(t, v, p) ==
  (IF ExactlyAbove(t, 95, 0) THEN 2
   ELSE IF ExactlyAbove(t, 85, 0) THEN 1 ELSE 0)
  + (IF ExactlyAbove(v, 7, 1) THEN 2
     ELSE IF ExactlyAbove(v, 5, 1) THEN 1 ELSE 0)
  + (IF ExactlyBelow(p, 30, 0) \/ ExactlyAbove(p, 60, 0) THEN 2
     ELSE IF ExactlyBelow(p, 35, 0) \/ ExactlyAbove(p, 55, 0) THEN 1
     ELSE 0)

\* C9: the cutpoints are compared with the unrounded window mean and only the
\* reported averages are rounded to two places: a mean strictly above a
\* cutpoint that is reported as the cutpoint (95.004 as 95.0) earns the points
\* of the higher band, and a mean strictly below a cutpoint that is reported
\* as the cutpoint earns those of its own side.
C9_BandsUseUnroundedMean ==
  Assessed =>
    LET t == avgTemp
        v == avgVib
        p == avgPressure
    IN /\ NearestHundredth(t, result.averages.temperature_c)
       /\ NearestHundredth(v, result.averages.vibration_rms)
       /\ NearestHundredth(p, result.averages.pressure_psi)
       /\ result.risk_points = UnroundedPoints(t, v, p)
       /\ (ExactlyAbove(t, 95, 0) /\ result.averages.temperature_c = 9500) =>
            result.risk_points >= 2
       /\ (ExactlyBelow(t, 95, 0) /\ result.averages.temperature_c = 9500) =>
            result.risk_points <= 5
       /\ (ExactlyBelow(p, 35, 0) /\ result.averages.pressure_psi = 3500) =>
            result.risk_points >= 1

\* one reading of 95.00390625, 2.50390625 and 34.99609375, reported as 95.0,
\* 2.5 and 35.0: 2 + 1 + 1 points, where the reported values would give 1
C9_Witness ==
  /\ Assessed
  /\ ExactlyAbove(avgTemp, 95, 0)
  /\ ExactlyAbove(avgVib, 5, 1)
  /\ ExactlyBelow(avgPressure, 35, 0)
  /\ result.averages = [temperature_c |-> 9500, vibration_rms |-> 250,
                        pressure_psi |-> 3500]
  /\ result.risk_points = 4

=============================================================================
